---- MODULE Spec2Model ----
(***************************************************************************)
(* Reconciliation engine of hyperlint (src/src/hyperlint/editors/core.py,  *)
(* BaseEditor) together with the MDX protected-region scanner              *)
(* (src/src/hyperlint/utils.py, MDXParser).                                *)
(*                                                                         *)
(* Text is a sequence of lexemes.  A lexeme is a one-element piece of a    *)
(* Python string: "\n" is the newline, " " a blank, "a", "b", ... words,   *)
(* "import x" an import statement, DELETE_LINE_MESSAGE's lexeme the        *)
(* delete sentinel.  A line is a sequence of lexemes without "\n".         *)
(***************************************************************************)
EXTENDS Integers, Sequences, FiniteSets, TLC

\* ------------------------------------------------------------------ bounds
MaxLines == 2

MaxLogCalls == 3

MaxPasses == 2

MaxIssues == 2
\* editors selected for one run of the edit command
MaxEditors == 2
\* lines of a document given to MDXParser
MaxScanLines == 4

\* lines of the documents on which the context window is checked: more
\* than ContextLines + 1, so that a window can leave lines out at either end
MaxWindowLines == 7

\* --------------------------------------------------------------- constants
NL == "\n"

SP == " "

\* config.py:17
DELETE_LINE_MESSAGE == <<">>>>>>>>>>>>>>DELETE<<<<<<<<<<<<<<<">>

\* the line_count argument generate_v2 passes to _get_surrounding_lines
ContextLines == 5

\* the fields pydantic declares on SimpleConfig; reading any other attribute
\* raises AttributeError
SimpleConfigFields ==
  {"vale", "custom_rules", "dry_run", "approval_mode", "approval_type",
   "hyperlint_dir", "enabled_editors"}

\* --------------------------------------------------------- string helpers
BoundedSeq(S, n) == UNION {[1..k -> S] : k \in 0..n}

Range(s) == {s[i] : i \in DOMAIN s}

Max(a, b) == IF a >= b THEN a ELSE b

\* index of the first "\n" of t, 0 when there is none
FirstNL(t) ==
  IF \E i \in DOMAIN t : t[i] = NL
  THEN CHOOSE i \in DOMAIN t : t[i] = NL /\ \A j \in 1..(i - 1) : t[j] # NL
  ELSE 0

RECURSIVE Split(_)
\* str.split("\n"): always at least one piece, "" gives [""]
Split(t) ==
  IF FirstNL(t) = 0 THEN <<t>>
  ELSE <<SubSeq(t, 1, FirstNL(t) - 1)>> \o Split(SubSeq(t, FirstNL(t) + 1, Len(t)))

RECURSIVE Join(_)
\* "\n".join(lines)
Join(ls) ==
  IF ls = <<>> THEN <<>>
  ELSE IF Len(ls) = 1 THEN ls[1]
  ELSE ls[1] \o <<NL>> \o Join(Tail(ls))

\* str.splitlines(): a final "\n" opens no further line, "" gives []
SplitLines(t) ==
  IF t = <<>> THEN <<>>
  ELSE IF t[Len(t)] = NL THEN Split(SubSeq(t, 1, Len(t) - 1))
  ELSE Split(t)

RECURSIVE LStrip(_)
\* str.lstrip()
LStrip(s) == IF s # <<>> /\ s[1] \in {SP, NL} THEN LStrip(Tail(s)) ELSE s

RECURSIVE RStrip(_)
\* str.rstrip()
RStrip(s) ==
  IF s # <<>> /\ s[Len(s)] \in {SP, NL} THEN RStrip(SubSeq(s, 1, Len(s) - 1)) ELSE s

\* str.strip()
Strip(s) == RStrip(LStrip(s))

\* " " * n
Spaces(n) == [i \in 1..n |-> SP]

\* str.count(c)
Count(s, c) == Cardinality({i \in DOMAIN s : s[i] = c})

\* ------------------------------------------------ MDXParser (utils.py)
ComponentNames == {"A", "B"}

\* the lexeme "<Name" that opens a component and the lexeme "</Name>" that
\* closes it; the name ends at the lexeme's end
OpenTag(n) == IF n = "A" THEN "<A" ELSE "<B"

CloseTag(n) == IF n = "A" THEN "</A>" ELSE "</B>"

\* only import statements are recognised
ImportOnly == {"import x"}

ImportLexemes == {"import x", "export x"}

\* re.match(r'^\s*<([A-Z]\w*)', line): the component name, "None" if no match
JsxStartMatch(line) ==
  IF LStrip(line) # <<>> /\ \E n \in ComponentNames : LStrip(line)[1] = OpenTag(n)
  THEN CHOOSE n \in ComponentNames : LStrip(line)[1] = OpenTag(n)
  ELSE "None"

ScanInit ==
  [in_jsx_block |-> FALSE, jsx_start_line |-> 0, component_name |-> "None",
   brace_count |-> 0, protected_regions |-> <<>>]

\* the region (start, end) is appended and the open component is forgotten
CloseRegion(st, start, end) ==
  [st EXCEPT !.protected_regions = Append(@, <<start, end>>),
             !.in_jsx_block = FALSE, !.jsx_start_line = 0,
             !.component_name = "None"]

\* the close tag of any component closes the open one
CheckClosingTagAnyName(st, line_idx, line) ==
  IF st.in_jsx_block /\ st.component_name # "None"
     /\ LStrip(line) # <<>>
     /\ \E n \in ComponentNames : LStrip(line)[1] = CloseTag(n)
  THEN CloseRegion(st, st.jsx_start_line, line_idx)
  ELSE st

\* the last statement of the loop body: the closing tag of the open component
CheckClosingTag(st, line_idx, line) ==
  IF st.in_jsx_block /\ st.component_name # "None"
     /\ LStrip(line) # <<>> /\ LStrip(line)[1] = CloseTag(st.component_name)
  THEN CloseRegion(st, st.jsx_start_line, line_idx)
  ELSE st

\* one iteration of the loop of _identify_protected_regions
ScanLine(st, line_idx, line) ==
  LET stripped == Strip(line)
      name == JsxStartMatch(line)
      open_braces == Count(line, "{")
      close_braces == Count(line, "}")
      opened == [st EXCEPT !.component_name = name, !.in_jsx_block = TRUE,
                           !.jsx_start_line = line_idx, !.brace_count = 0]
  IN
  IF stripped = <<>> /\ ~st.in_jsx_block THEN st
  ELSE IF ~st.in_jsx_block /\ stripped # <<>> /\ stripped[1] \in ImportLexemes
  THEN [st EXCEPT !.protected_regions = Append(@, <<line_idx, line_idx>>)]
  ELSE IF name # "None" /\ ~st.in_jsx_block
  THEN IF stripped[Len(stripped)] = "/>"
       THEN CloseRegion(opened, line_idx, line_idx)
       ELSE IF CloseTag(name) \in Range(line)
       THEN CloseRegion(opened, line_idx, line_idx)
       ELSE CheckClosingTag(opened, line_idx, line)
  ELSE IF open_braces > 0 \/ close_braces > 0
  THEN IF ~st.in_jsx_block /\ open_braces > 0
       THEN [st EXCEPT !.protected_regions = Append(@, <<line_idx, line_idx>>)]
       ELSE CheckClosingTag(
              [st EXCEPT !.brace_count = @ + open_braces - close_braces],
              line_idx, line)
  ELSE CheckClosingTag(st, line_idx, line)

RECURSIVE ScanFrom(_, _, _)
ScanFrom(lines, line_idx, st) ==
  IF line_idx > Len(lines) THEN st
  ELSE ScanFrom(lines, line_idx + 1, ScanLine(st, line_idx, lines[line_idx]))

\* MDXParser(content).protected_regions after model_post_init
IdentifyProtectedRegions(content) ==
  ScanFrom(SplitLines(content), 1, ScanInit).protected_regions

\* MDXParser.is_protected_line
IsProtectedLine(regions, line_number) ==
  \E i \in DOMAIN regions : regions[i][1] <= line_number /\ line_number <= regions[i][2]

\* ------------------------------------------- BaseEditor (editors/core.py)
\* lexemes of a plain document, and of a document with MDX markup
TextChars == {"a", NL}

MdxChars == {"a", NL, "import x"}

\* the documents: at most MaxLines lines, each empty or one lexeme
Texts(chars) ==
  {t \in BoundedSeq(chars, 2 * MaxLines - 1) :
     /\ Count(t, NL) < MaxLines
     /\ \A i \in 1..(Len(t) - 1) : t[i] = NL \/ t[i + 1] = NL}

\* the analyzers that report replace issues: one reads the line it reports
\* from the snapshot, the other reports against content the document does
\* not hold
Analyzers ==
  {[issue_message |-> <<"m1">>, stale |-> FALSE],
   [issue_message |-> <<"m2", "m1">>, stale |-> TRUE]}

\* an existing_content that is not what the document holds on the line
StaleContent == <<SP, "s">>

\* what the model behind ReplaceLineFixableIssue.fix answers
Responses == {<<SP, "b">>, DELETE_LINE_MESSAGE}

\* insert_content of an insert issue
InsertContents == {<<"x">>, DELETE_LINE_MESSAGE}

\* the sequences over S that list every element of S once: list(set(...))
Perms(S) == {p \in [1..Cardinality(S) -> S] : Range(p) = S}

RECURSIVE SortedKeys(_)
\* the keys of a dict in ascending order, as sorted(d.items()) visits them
SortedKeys(S) ==
  IF S = {} THEN <<>>
  ELSE LET m == CHOOSE x \in S : \A y \in S : x <= y
       IN <<m>> \o SortedKeys(S \ {m})

\* the issues left in the order they were registered in
Unsorted(ins, k) == [i \in 1..k |-> i]

RECURSIVE UnstableSort(_, _)
\* a sort by line that puts a later issue before the earlier ones of its line
UnstableSort(ins, k) ==
  IF k = 0 THEN <<>>
  ELSE LET prev == UnstableSort(ins, k - 1)
           n == Cardinality({i \in DOMAIN prev : ins[prev[i]].line < ins[k].line})
       IN SubSeq(prev, 1, n) \o <<k>> \o SubSeq(prev, n + 1, Len(prev))

RECURSIVE StableSort(_, _)
\* sorted(self.insertions, key=lambda x: x.line), as the sequence of the
\* list positions of the issues; k positions of ins are already placed in
\* the result of StableSort(ins, k)
StableSort(ins, k) ==
  IF k = 0 THEN <<>>
  ELSE LET prev == StableSort(ins, k - 1)
           n == Cardinality({i \in DOMAIN prev : ins[prev[i]].line <= ins[k].line})
       IN SubSeq(prev, 1, n) \o <<k>> \o SubSeq(prev, n + 1, Len(prev))

VARIABLES
  text,                \* self.text
  config,              \* self.config: dry_run, approval_mode
  replacements,        \* self.replacements
  insertions,          \* self.insertions
  deletions,           \* self.deletions
  pc,                  \* position in generate_v2
  err,                 \* the exception generate_v2 ended with, "none" if none
  original_text,       \* the text generate_v2 started from
  compressed_issues,   \* _compress_issues(): <<line, positions in replacements>>
  compressed_pos,      \* position of the loop over compressed_issues
  initial_line_lookup, \* line number -> content
  changes,             \* line number -> fix or DELETE_LINE_MESSAGE
  deletion_pos,        \* position of the loop over self.deletions
  sorted_insertions,   \* positions in self.insertions, sorted by line
  insertion_idx,       \* insertions consumed so far
  sorted_lines,        \* the keys sorted(initial_line_lookup.items()) visits
  line_pos,            \* position of the loop over sorted_lines
  final_lines,         \* emitted lines, each with the issue or line it is from
  fix_calls,           \* history: the calls of ReplaceLineFixableIssue.fix
  filter_calls,        \* history: the calls of _approval_filter
  file,                \* the content of the file at self.path
  cli,                 \* the command line: command, dry_run, require_approval
  driver,              \* the method called on the editor and its locals
  passes,              \* the calls of generate_v2 on this editor so far
  first_pass,          \* history: the output of the first call and the
                       \* number of issues the editor held when it returned
  log,                 \* the decision logs: file name -> the lines written
  log_calls,           \* history: the calls of the logging functions
  runner,              \* editai/cli.py: one call of run_editors_sequential
                       \* or run_editors_parallel and its locals
  parser,              \* an MDXParser: its content, its lines and the
                       \* locals of _identify_protected_regions
  pool                 \* the passes that run at the same time on the file:
                       \* their positions and texts, and the order in which
                       \* they finished writing

vars ==
  <<text, config, replacements, insertions, deletions, pc, err, original_text,
    compressed_issues, compressed_pos, initial_line_lookup, changes,
    deletion_pos, sorted_insertions, insertion_idx, sorted_lines, line_pos,
    final_lines, fix_calls, filter_calls, file, cli, driver, passes,
    first_pass, log, log_calls, runner, pool, parser>>

\* what one call of generate_v2 and its driver leave alone
auxVars == <<passes, first_pass, log, log_calls, runner, pool, parser>>

\* what generate_v2 itself leaves alone
envVars == <<file, cli, driver, auxVars>>

issueVars == <<replacements, insertions, deletions>>

passVars ==
  <<compressed_issues, compressed_pos, initial_line_lookup, changes,
    deletion_pos, sorted_insertions, insertion_idx, sorted_lines, line_pos,
    final_lines>>

\* a lookup built with text.splitlines()
GetLineNumberLookupSplitLines(t) == [n \in 1..Len(SplitLines(t)) |-> SplitLines(t)[n]]

\* get_line_number_lookup(): enumerate(text.split("\n"), 1)
GetLineNumberLookup(t) == [n \in 1..Len(Split(t)) |-> Split(t)[n]]

\* line numbers an analyzer may report for the text: the lines of the
\* document and one number out of range at each end
IssueLines(t) == 0..(Len(Split(t)) + 1)

\* the existing_content an analyzer puts on a replace issue
ExistingContent(t, line, stale) ==
  IF ~stale /\ line \in 1..Len(Split(t)) THEN Split(t)[line] ELSE StaleContent

\* no command line: the editor is used from Python
NoCommand == [command |-> "none", dry_run |-> FALSE, require_approval |-> TRUE]

\* generate_v2 called on the editor, as the tests do; prerun and dry_run are
\* the locals of FolderProcessor.process_directory
Direct ==
  [entry |-> "generate_v2", old_dry_run |-> FALSE, update_prompts |-> 0,
   prerun |-> "not called", dry_run |-> FALSE]

NumIssues == Len(replacements) + Len(insertions) + Len(deletions)

\* a BaseEditor just constructed for a file, before any method is called
InitEditor(texts) ==
  /\ text \in texts
  /\ config \in [dry_run : BOOLEAN, approval_mode : BOOLEAN]
  /\ replacements = <<>>
  /\ insertions = <<>>
  /\ deletions = <<>>
  /\ err = "none"
  /\ original_text = text
  /\ compressed_issues = <<>>
  /\ compressed_pos = 1
  /\ initial_line_lookup = <<>>
  /\ changes = <<>>
  /\ deletion_pos = 1
  /\ sorted_insertions = <<>>
  /\ insertion_idx = 0
  /\ sorted_lines = <<>>
  /\ line_pos = 1
  /\ final_lines = <<>>
  /\ fix_calls = <<>>
  /\ filter_calls = <<>>
  /\ file = text

\* the decision logs a run starts with
LogFiles ==
  {"editor_judge.jsonl", "silent_judge.jsonl", "image_judge.jsonl",
   "changes.jsonl", "media_approvals.jsonl"}

\* editai/cli.py: neither run_editors_sequential nor run_editors_parallel
\* has been called
NoRun ==
  [mode |-> "none", editors |-> <<>>, pc |-> "idle", pos |-> 1,
   started |-> <<>>, results |-> <<>>, raised |-> "none"]

\* no MDXParser has been constructed
NoParser ==
  [pc |-> "none", content |-> <<>>, lines |-> <<>>, line_idx |-> 1,
   st |-> ScanInit, after |-> <<>>]

\* no other pass runs on the file
NoPool == [dry_run |-> FALSE, workers |-> <<>>, writes |-> <<>>]

\* no second call of generate_v2 yet, nothing logged yet, no editors run
InitAux ==
  /\ passes = 1
  /\ first_pass = [output |-> <<>>, issues |-> 0]
  /\ log = [f \in LogFiles |-> <<>>]
  /\ log_calls = <<>>
  /\ runner = NoRun
  /\ pool = NoPool
  /\ parser = NoParser

\* generate_v2 is about to be called on the editor
InitWith(texts) ==
  /\ InitEditor(texts)
  /\ pc = "collect"
  /\ cli = NoCommand
  /\ driver = Direct
  /\ InitAux

\* add_replacement
AddReplacement ==
  /\ pc = "collect"
  /\ NumIssues < MaxIssues
  /\ \E line \in IssueLines(text), a \in Analyzers :
       replacements' = Append(replacements,
         [line |-> line, issue_message |-> a.issue_message,
          existing_content |-> ExistingContent(text, line, a.stale)])
  /\ UNCHANGED <<text, config, insertions, deletions, pc, err, original_text,
                 passVars, fix_calls, filter_calls>>
  /\ UNCHANGED envVars

\* add_insertion
AddInsertion ==
  /\ pc = "collect"
  /\ NumIssues < MaxIssues
  /\ \E line \in IssueLines(text), content \in InsertContents :
       insertions' = Append(insertions, [line |-> line, insert_content |-> content])
  /\ UNCHANGED <<text, config, replacements, deletions, pc, err, original_text,
                 passVars, fix_calls, filter_calls>>
  /\ UNCHANGED envVars

\* add_deletion
AddDeletion ==
  /\ pc = "collect"
  /\ NumIssues < MaxIssues
  /\ \E line \in IssueLines(text) :
       deletions' = Append(deletions,
         [line |-> line, issue_message |-> <<"m1">>,
          existing_content |-> IF line \in 1..Len(Split(text))
                               THEN Split(text)[line] ELSE <<>>])
  /\ UNCHANGED <<text, config, replacements, insertions, pc, err, original_text,
                 passVars, fix_calls, filter_calls>>
  /\ UNCHANGED envVars

\* a grouping that keeps every issue in a group of its own
CompressIssuesUngrouped(repls, k) ==
  [i \in 1..k |-> [line |-> repls[i].line, issues |-> <<i>>]]

RECURSIVE CompressIssues(_, _)
\* _compress_issues() over the first k replacements: the dict, in the order
\* its keys were inserted, of line -> positions of the issues on that line
CompressIssues(repls, k) ==
  IF k = 0 THEN <<>>
  ELSE LET prev == CompressIssues(repls, k - 1)
           line == repls[k].line
       IN IF \E i \in DOMAIN prev : prev[i].line = line
          THEN [i \in DOMAIN prev |->
                  IF prev[i].line = line
                  THEN [prev[i] EXCEPT !.issues = Append(@, k)]
                  ELSE prev[i]]
          ELSE Append(prev, [line |-> line, issues |-> <<k>>])

\* a window that ends one line early
GetSurroundingLinesShort(line_number, line_count, line_lookup) ==
  LET start_line == Max(1, line_number - line_count)
      end_line == line_number + line_count
      nos == SortedKeys({n \in start_line..(end_line - 1) : n \in DOMAIN line_lookup})
  IN [i \in DOMAIN nos |-> <<ToString(nos[i]), ": ">> \o line_lookup[nos[i]]]

\* _get_surrounding_lines: f"{line_no}: {content}" for the lines in range
GetSurroundingLines(line_number, line_count, line_lookup) ==
  LET start_line == Max(1, line_number - line_count)
      end_line == line_number + line_count + 1
      nos == SortedKeys({n \in start_line..(end_line - 1) : n \in DOMAIN line_lookup})
  IN [i \in DOMAIN nos |-> <<ToString(nos[i]), ": ">> \o line_lookup[nos[i]]]

\* what the call of the model inside fix() may do: raise, or answer
FixOutcomes ==
  {[raised |-> TRUE, answer |-> <<>>]} \cup
  {[raised |-> FALSE, answer |-> r] : r \in Responses}

\* a fix() without the except clause
FixUncaught(issue, outcome) ==
  IF outcome.raised
  THEN [result |-> issue.existing_content, raised |-> "Exception"]
  ELSE LET leading_spaces ==
             Len(issue.existing_content) - Len(LStrip(issue.existing_content))
       IN [result |-> Spaces(leading_spaces) \o LStrip(outcome.answer),
           raised |-> "none"]

\* ReplaceLineFixableIssue.fix: the answer with the indentation of
\* existing_content; the except clause turns anything raised into
\* existing_content, so nothing leaves fix() as an exception
Fix(issue, outcome) ==
  IF outcome.raised
  THEN [result |-> issue.existing_content, raised |-> "none"]
  ELSE LET leading_spaces ==
             Len(issue.existing_content) - Len(LStrip(issue.existing_content))
       IN [result |-> Spaces(leading_spaces) \o LStrip(outcome.answer),
           raised |-> "none"]

\* an approval check that does not look at config.dry_run
ApprovalFilterNoDryRun(cfg) ==
  IF ~cfg.approval_mode
  THEN {[approved |-> TRUE, prompted |-> FALSE, raised |-> "none"]}
  ELSE {[approved |-> answer, prompted |-> TRUE,
         raised |-> IF "log_approvals" \in SimpleConfigFields
                    THEN "none" ELSE "AttributeError"] : answer \in BOOLEAN}

\* _approval_filter: the possible results; an operator prompted in
\* approval mode may answer either way, and reading config.log_approvals
\* raises when SimpleConfig has no such field
ApprovalFilter(cfg) ==
  IF cfg.dry_run
  THEN {[approved |-> TRUE, prompted |-> FALSE, raised |-> "none"]}
  ELSE IF ~cfg.approval_mode
  THEN {[approved |-> TRUE, prompted |-> FALSE, raised |-> "none"]}
  ELSE {[approved |-> answer, prompted |-> TRUE,
         raised |-> IF "log_approvals" \in SimpleConfigFields
                    THEN "none" ELSE "AttributeError"] : answer \in BOOLEAN}

\* the history entry of one _approval_filter call
FilterCall(issue_type, line, proposed_fix, o) ==
  [issue_type |-> issue_type, line |-> line, proposed_fix |-> proposed_fix,
   approved |-> o.approved, prompted |-> o.prompted, raised |-> o.raised]

\* a comparison that records the fix when it equals the line
ShouldRecordEqual(approved, proposed_fix, current) == approved /\ proposed_fix = current

\* "approved and proposed_fix != initial_line_lookup[line_no]"
ShouldRecord(approved, proposed_fix, current) == approved /\ proposed_fix # current

\* a loop over the lines that appends every recorded change
LineOutputNoMarkerTest(line_no, chg, line_lookup) ==
  IF line_no \in DOMAIN chg
  THEN <<[content |-> chg[line_no], src |-> "line", n |-> line_no]>>
  ELSE <<[content |-> line_lookup[line_no], src |-> "line", n |-> line_no]>>

\* what the loop over the lines appends for line_no: the recorded change
\* unless it is the delete marker, the content of the lookup otherwise
LineOutput(line_no, chg, line_lookup) ==
  IF line_no \in DOMAIN chg
  THEN IF chg[line_no] # DELETE_LINE_MESSAGE
       THEN <<[content |-> chg[line_no], src |-> "line", n |-> line_no]>>
       ELSE <<>>
  ELSE <<[content |-> line_lookup[line_no], src |-> "line", n |-> line_no]>>

\* d.setdefault(k, v): an existing entry is kept
DictSetDefault(d, k, v) == [n \in DOMAIN d \cup {k} |-> IF n \in DOMAIN d THEN d[n] ELSE v]

\* d[k] = v on a dict
DictSet(d, k, v) == [n \in DOMAIN d \cup {k} |-> IF n = k THEN v ELSE d[n]]

\* generate_v2, up to the first loop
GenerateStart ==
  /\ pc = "collect"
  /\ pc' = "fix"
  /\ original_text' = text
  /\ compressed_issues' = CompressIssues(replacements, Len(replacements))
  /\ compressed_pos' = 1
  /\ initial_line_lookup' = GetLineNumberLookup(text)
  /\ changes' = <<>>
  /\ deletion_pos' = 1
  /\ UNCHANGED <<text, config, issueVars, err, sorted_insertions, insertion_idx,
                 sorted_lines, line_pos, final_lines, fix_calls, filter_calls>>
  /\ UNCHANGED envVars

\* one iteration of "for line_no, line_issues in compressed_issues.items()"
ReplaceStep ==
  /\ pc = "fix"
  /\ compressed_pos <= Len(compressed_issues)
  /\ LET line_no == compressed_issues[compressed_pos].line
         line_issues == compressed_issues[compressed_pos].issues
         msgs == UNION {Range(replacements[i].issue_message) : i \in Range(line_issues)}
     IN \E issues \in Perms(msgs), outcome \in FixOutcomes, o \in ApprovalFilter(config) :
          LET deduped_issue == [replacements[line_issues[1]] EXCEPT !.issue_message = issues]
              context == Join(GetSurroundingLines(line_no, ContextLines, initial_line_lookup))
              fixed == Fix(deduped_issue, outcome)
              proposed_fix == fixed.result
          IN /\ replacements' = [replacements EXCEPT ![line_issues[1]] = deduped_issue]
             /\ fix_calls' = Append(fix_calls,
                  [line |-> line_no, issue_message |-> issues,
                   existing_content |-> deduped_issue.existing_content,
                   context |-> context, failed |-> outcome.raised,
                   result |-> proposed_fix])
             /\ IF fixed.raised # "none"
                THEN /\ pc' = "raised" /\ err' = fixed.raised
                     /\ UNCHANGED <<changes, initial_line_lookup, compressed_pos,
                                    filter_calls>>
                ELSE
                /\ filter_calls' = Append(filter_calls,
                     FilterCall("replacement", line_no, proposed_fix, o))
                /\ IF o.raised # "none"
                   THEN /\ pc' = "raised" /\ err' = o.raised
                        /\ UNCHANGED <<changes, initial_line_lookup, compressed_pos>>
                   ELSE IF o.approved /\ line_no \notin DOMAIN initial_line_lookup
                   THEN /\ pc' = "raised" /\ err' = "KeyError"
                        /\ UNCHANGED <<changes, initial_line_lookup, compressed_pos>>
                   ELSE /\ UNCHANGED <<pc, err>>
                        /\ compressed_pos' = compressed_pos + 1
                        /\ IF o.approved
                              /\ ShouldRecord(o.approved, proposed_fix,
                                              initial_line_lookup[line_no])
                           THEN /\ changes' = DictSet(changes, line_no, proposed_fix)
                                /\ initial_line_lookup' =
                                     DictSet(initial_line_lookup, line_no, proposed_fix)
                           ELSE UNCHANGED <<changes, initial_line_lookup>>
  /\ UNCHANGED <<text, config, insertions, deletions, original_text,
                 compressed_issues, deletion_pos, sorted_insertions,
                 insertion_idx, sorted_lines, line_pos, final_lines>>
  /\ UNCHANGED envVars

\* one iteration of "for issue in self.deletions"
DeleteStep ==
  /\ pc = "fix"
  /\ compressed_pos > Len(compressed_issues)
  /\ deletion_pos <= Len(deletions)
  /\ LET issue == deletions[deletion_pos]
     IN \E o \in ApprovalFilter(config) :
          /\ filter_calls' = Append(filter_calls,
               FilterCall("deletion", issue.line, <<"TO DELETE">>, o))
          /\ IF o.raised # "none"
             THEN /\ pc' = "raised" /\ err' = o.raised
                  /\ UNCHANGED <<changes, initial_line_lookup, deletion_pos>>
             ELSE /\ UNCHANGED <<pc, err>>
                  /\ deletion_pos' = deletion_pos + 1
                  /\ IF o.approved
                     THEN /\ changes' = DictSet(changes, issue.line, DELETE_LINE_MESSAGE)
                          /\ initial_line_lookup' =
                               DictSet(initial_line_lookup, issue.line, DELETE_LINE_MESSAGE)
                     ELSE UNCHANGED <<changes, initial_line_lookup>>
  /\ UNCHANGED <<text, config, issueVars, original_text, compressed_issues,
                 compressed_pos, sorted_insertions, insertion_idx, sorted_lines,
                 line_pos, final_lines, fix_calls>>
  /\ UNCHANGED envVars

\* the statements between the deletion loop and the loop over the lines
BeginEmit ==
  /\ pc = "fix"
  /\ compressed_pos > Len(compressed_issues)
  /\ deletion_pos > Len(deletions)
  /\ pc' = "emit"
  /\ final_lines' = <<>>
  /\ sorted_insertions' = StableSort(insertions, Len(insertions))
  /\ insertion_idx' = 0
  /\ sorted_lines' = SortedKeys(DOMAIN initial_line_lookup)
  /\ line_pos' = 1
  /\ UNCHANGED <<text, config, issueVars, err, original_text, compressed_issues,
                 compressed_pos, initial_line_lookup, changes, deletion_pos,
                 fix_calls, filter_calls>>
  /\ UNCHANGED envVars

\* the insertion the loops look at next, as a position in self.insertions
NextInsertion == sorted_insertions[insertion_idx + 1]

\* the condition of the inner while: an insertion is pending for this line
InsertionDueHere ==
  /\ insertion_idx < Len(sorted_insertions)
  /\ insertions[NextInsertion].line = sorted_lines[line_pos]

\* the body both insertion loops share: filter, append when approved
ApplyInsertion ==
  LET insert_issue == insertions[NextInsertion]
  IN \E o \in ApprovalFilter(config) :
       /\ filter_calls' = Append(filter_calls,
            FilterCall("insertion", insert_issue.line, insert_issue.insert_content, o))
       /\ IF o.raised # "none"
          THEN /\ pc' = "raised" /\ err' = o.raised
               /\ UNCHANGED <<final_lines, insertion_idx>>
          ELSE /\ UNCHANGED <<pc, err>>
               /\ insertion_idx' = insertion_idx + 1
               /\ final_lines' =
                    IF o.approved
                    THEN Append(final_lines,
                           [content |-> insert_issue.insert_content,
                            src |-> "insertion", n |-> NextInsertion])
                    ELSE final_lines

\* one iteration of the while inside the loop over the lines
InsertStep ==
  /\ pc = "emit"
  /\ line_pos <= Len(sorted_lines)
  /\ InsertionDueHere
  /\ ApplyInsertion
  /\ UNCHANGED <<text, config, issueVars, original_text, compressed_issues,
                 compressed_pos, initial_line_lookup, changes, deletion_pos,
                 sorted_insertions, sorted_lines, line_pos, fix_calls>>
  /\ UNCHANGED envVars

\* the rest of one iteration of the loop over the lines
EmitLine ==
  /\ pc = "emit"
  /\ line_pos <= Len(sorted_lines)
  /\ ~InsertionDueHere
  /\ final_lines' =
       final_lines \o LineOutput(sorted_lines[line_pos], changes, initial_line_lookup)
  /\ line_pos' = line_pos + 1
  /\ UNCHANGED <<text, config, issueVars, pc, err, original_text,
                 compressed_issues, compressed_pos, initial_line_lookup, changes,
                 deletion_pos, sorted_insertions, insertion_idx, sorted_lines,
                 fix_calls, filter_calls>>
  /\ UNCHANGED envVars

\* one iteration of the while after the loop over the lines
TailStep ==
  /\ pc = "emit"
  /\ line_pos > Len(sorted_lines)
  /\ insertion_idx < Len(sorted_insertions)
  /\ ApplyInsertion
  /\ UNCHANGED <<text, config, issueVars, original_text, compressed_issues,
                 compressed_pos, initial_line_lookup, changes, deletion_pos,
                 sorted_insertions, sorted_lines, line_pos, fix_calls>>
  /\ UNCHANGED envVars

\* self.text = "\n".join(final_lines); return self.get_text()
Finish ==
  /\ pc = "emit"
  /\ line_pos > Len(sorted_lines)
  /\ insertion_idx >= Len(sorted_insertions)
  /\ text' = Join([i \in DOMAIN final_lines |-> final_lines[i].content])
  /\ pc' = "done"
  /\ UNCHANGED <<config, issueVars, err, original_text, passVars, fix_calls,
                 filter_calls>>
  /\ UNCHANGED envVars

\* the "vale" command of cli.py, from load_config to the choice of the
\* method: --dry-run sets config.dry_run, require_approval is not read
ValeCommand ==
  /\ pc = "cli"
  /\ cli.command = "vale"
  /\ LET cfg == IF cli.dry_run THEN [config EXCEPT !.dry_run = TRUE] ELSE config
     IN /\ config' = cfg
        /\ driver' = [driver EXCEPT !.entry = IF cfg.dry_run THEN "dry_run"
                                                  ELSE "update_file"]
  /\ pc' = "idle"
  /\ UNCHANGED <<text, issueVars, err, original_text, passVars, fix_calls,
                 filter_calls, file, cli>>
  /\ UNCHANGED auxVars

\* the "rules" command of cli.py: also config.approval_mode = require_approval
RulesCommand ==
  /\ pc = "cli"
  /\ cli.command = "rules"
  /\ LET cfg == [config EXCEPT !.dry_run = cli.dry_run \/ @,
                               !.approval_mode = cli.require_approval]
     IN /\ config' = cfg
        /\ driver' = [driver EXCEPT !.entry = IF cfg.dry_run THEN "dry_run"
                                                  ELSE "update_file"]
  /\ pc' = "idle"
  /\ UNCHANGED <<text, issueVars, err, original_text, passVars, fix_calls,
                 filter_calls, file, cli>>
  /\ UNCHANGED auxVars

\* dry_run(), up to the call of generate_v2
DryRunStart ==
  /\ pc = "idle"
  /\ driver.entry = "dry_run"
  /\ driver' = [driver EXCEPT !.old_dry_run = config.dry_run]
  /\ config' = [config EXCEPT !.dry_run = TRUE]
  /\ pc' = "collect"
  /\ UNCHANGED <<text, issueVars, err, original_text, passVars, fix_calls,
                 filter_calls, file, cli>>
  /\ UNCHANGED auxVars

\* dry_run(), after generate_v2 has returned: the diff is printed and the
\* setting restored; nothing is written
DryRunEnd ==
  /\ pc = "done"
  /\ driver.entry = "dry_run"
  /\ config' = [config EXCEPT !.dry_run = driver.old_dry_run]
  /\ pc' = "returned"
  /\ UNCHANGED <<text, issueVars, err, original_text, passVars, fix_calls,
                 filter_calls, file, cli, driver>>
  /\ UNCHANGED auxVars

\* update_file(), up to the call of generate_v2
UpdateFileStart ==
  /\ pc = "idle"
  /\ driver.entry = "update_file"
  /\ pc' = "collect"
  /\ UNCHANGED <<text, config, issueVars, err, original_text, passVars,
                 fix_calls, filter_calls, file, cli, driver>>
  /\ UNCHANGED auxVars

\* update_file(), after generate_v2 has returned: the operator is asked
\* "Update the file? [y/n]" and the file is written on yes
UpdateFileEnd ==
  /\ pc = "done"
  /\ driver.entry = "update_file"
  /\ driver' = [driver EXCEPT !.update_prompts = @ + 1]
  /\ \E approved \in BOOLEAN : file' = IF approved THEN text ELSE file
  /\ pc' = "returned"
  /\ UNCHANGED <<text, config, issueVars, err, original_text, passVars,
                 fix_calls, filter_calls, cli>>
  /\ UNCHANGED auxVars

\* FolderProcessor.process_directory, for one file: prerun_checks() is
\* called on the new editor, and the file is skipped when it returns False
PrerunChecks ==
  /\ pc = "idle"
  /\ driver.entry = "process_directory"
  /\ \E ok \in BOOLEAN :
       /\ driver' = [driver EXCEPT !.prerun = IF ok THEN "true" ELSE "false"]
       /\ pc' = IF ok THEN "collect" ELSE "returned"
  /\ UNCHANGED <<text, config, issueVars, err, original_text, passVars,
                 fix_calls, filter_calls, file, cli>>
  /\ UNCHANGED auxVars

\* process_directory, after generate_v2 has returned: the content is
\* written back unless dry_run was passed
ProcessDirectoryWrite ==
  /\ pc = "done"
  /\ driver.entry = "process_directory"
  /\ file' = IF driver.dry_run THEN file ELSE text
  /\ pc' = "returned"
  /\ UNCHANGED <<text, config, issueVars, err, original_text, passVars,
                 fix_calls, filter_calls, cli, driver>>
  /\ UNCHANGED auxVars

\* process_directory, after generate_v2 has raised: the except clause logs
\* the error and the loop goes on to the next file
ProcessDirectoryExcept ==
  /\ pc = "raised"
  /\ driver.entry = "process_directory"
  /\ pc' = "returned"
  /\ UNCHANGED <<text, config, issueVars, err, original_text, passVars,
                 fix_calls, filter_calls, file, cli, driver>>
  /\ UNCHANGED auxVars

\* generate_v2 is called once more on the editor: get_text() now returns
\* the output of the call before, and collect_issues() appends to the lists
\* the editor still holds
CallAgain ==
  /\ pc = "done"
  /\ driver.entry = "generate_v2"
  /\ passes < MaxPasses
  /\ passes' = passes + 1
  /\ first_pass' = IF passes = 1 THEN [output |-> text, issues |-> NumIssues]
                                ELSE first_pass
  /\ pc' = "collect"
  /\ UNCHANGED <<text, config, issueVars, err, original_text, passVars,
                 fix_calls, filter_calls, file, cli, driver, log, log_calls,
                 runner, pool, parser>>

Next ==
  \/ AddReplacement
  \/ AddInsertion
  \/ AddDeletion
  \/ GenerateStart
  \/ ReplaceStep
  \/ DeleteStep
  \/ BeginEmit
  \/ InsertStep
  \/ EmitLine
  \/ TailStep
  \/ Finish

\* the editor on a plain document
Init == InitWith(Texts(TextChars))

Spec == Init /\ [][Next]_vars

\* the editor on a document with MDX markup
InitMdx == InitWith(Texts(MdxChars))

SpecMdx == InitMdx /\ [][Next]_vars

\* the documents of 1..MaxWindowLines lines "a"
WindowTexts ==
  {[i \in 1..(2 * k - 1) |-> IF i % 2 = 1 THEN "a" ELSE NL] :
     k \in 1..MaxWindowLines}

\* the replace loop of generate_v2 on documents longer than one window
NextWindow ==
  \/ AddReplacement
  \/ GenerateStart
  \/ ReplaceStep

InitWindow == InitWith(WindowTexts)

SpecWindow == InitWindow /\ [][NextWindow]_vars

\* the editor when the analyzers register insert issues only
NextInsert ==
  \/ AddInsertion
  \/ GenerateStart
  \/ BeginEmit
  \/ InsertStep
  \/ EmitLine
  \/ TailStep
  \/ Finish

SpecInsert == Init /\ [][NextInsert]_vars

\* an editor on which generate_v2 is called more than once
NextAgain ==
  \/ AddReplacement
  \/ AddInsertion
  \/ AddDeletion
  \/ GenerateStart
  \/ ReplaceStep
  \/ DeleteStep
  \/ BeginEmit
  \/ InsertStep
  \/ EmitLine
  \/ TailStep
  \/ Finish
  \/ CallAgain

SpecAgain == Init /\ [][NextAgain]_vars

\* the command lines, and the methods called on an editor from Python
Commands ==
  {NoCommand} \cup
  [command : {"vale", "rules"}, dry_run : BOOLEAN, require_approval : BOOLEAN]

\* the methods that drive a pass on an editor from Python
Entries ==
  {[Direct EXCEPT !.entry = e] : e \in {"dry_run", "update_file"}} \cup
  {[Direct EXCEPT !.entry = "process_directory", !.dry_run = d] : d \in BOOLEAN}

\* an editor driven by a command of cli.py, or through dry_run(),
\* update_file() or FolderProcessor.process_directory()
InitCli ==
  /\ InitEditor(Texts(TextChars))
  /\ cli \in Commands
  /\ IF cli.command = "none"
     THEN /\ pc = "idle"
          /\ driver \in Entries
     ELSE /\ pc = "cli"
          /\ driver = Direct
  /\ InitAux

NextCli ==
  \/ ValeCommand
  \/ RulesCommand
  \/ DryRunStart
  \/ UpdateFileStart
  \/ PrerunChecks
  \/ AddReplacement
  \/ AddInsertion
  \/ AddDeletion
  \/ GenerateStart
  \/ ReplaceStep
  \/ DeleteStep
  \/ BeginEmit
  \/ InsertStep
  \/ EmitLine
  \/ TailStep
  \/ Finish
  \/ DryRunEnd
  \/ UpdateFileEnd
  \/ ProcessDirectoryWrite
  \/ ProcessDirectoryExcept

SpecCli == InitCli /\ [][NextCli]_vars

\* ------------------------------------------- the decision logs
\* what the editor and its driver hold
editorVarsButRunner ==
  <<text, config, issueVars, pc, err, original_text, passVars, fix_calls,
    filter_calls, file, cli, driver, passes, first_pass>>

\* the same with the editors run, for the steps that touch none of them
editorVars == <<editorVarsButRunner, runner, pool, parser>>

\* the methods SimpleConfig defines; calling any other raises AttributeError
SimpleConfigMethods ==
  {"from_yaml", "merge_with_cli", "get_storage_data_dir", "get_judge_data_dir",
   "ensure_storage_dirs"}

\* open(log_file, "w"): the line replaces what the file held
OverwriteLine(lg, f, rec) == [lg EXCEPT ![f] = <<rec>>]

\* with open(log_file, "a") as f: f.write(json.dumps(log_entry) + "\n")
AppendLine(lg, f, rec) == [lg EXCEPT ![f] = Append(@, rec)]

\* get_approval_log: the class of the log for a configuration
GetApprovalLog(cfg, approval_type) ==
  IF cfg.dry_run THEN "silent"
  ELSE IF approval_type = "silent" THEN "silent"
  ELSE IF approval_type = "image" THEN "image"
  ELSE "console"

\* the class whose log_decision a prompt_for_approval ends in:
\* ImageApprovalLog hands the prompt to a new ConsoleEditorApprovalLog
LoggingClass(kind) == IF kind = "image" THEN "console" ELSE kind

\* self.decision_type of the class
DecisionType(kind) == IF kind = "silent" THEN "silent" ELSE "editor"

\* get_log_file_path of the class
LogFilePath(kind) ==
  IF kind = "silent" THEN "silent_judge.jsonl"
  ELSE IF kind = "image" THEN "image_judge.jsonl"
  ELSE "editor_judge.jsonl"

\* what creating the directories, serialising the entry and opening the
\* file may end in
LogOutcomes == {"none", "OSError", "TypeError"}

\* one call of a logging function: the entry is the last line of the file
\* when nothing was raised
Logged(function, f, rec, raised) ==
  /\ Len(log_calls) < MaxLogCalls
  /\ log_calls' = Append(log_calls,
       [function |-> function, file |-> f, record |-> rec, raised |-> raised])
  /\ log' = IF raised = "none" THEN AppendLine(log, f, rec) ELSE log
  /\ UNCHANGED editorVars

\* prompt_for_approval of the log get_approval_log returns, which ends in
\* ApprovalLog.log_decision; "date" is the number of the call
PromptAndLogDecision ==
  \E approval_type \in {"console", "image", "silent"}, answer \in BOOLEAN,
     raised \in LogOutcomes :
    LET kind == LoggingClass(GetApprovalLog(config, approval_type))
        approved == IF kind = "silent" THEN TRUE ELSE answer
    IN Logged("log_decision", LogFilePath(kind),
              [decision_type |-> DecisionType(kind), approved |-> approved,
               date |-> Len(log_calls) + 1],
              raised)

\* log_approval_decision of editors/core.py, which calls
\* config.ensure_storage_dir() before it opens changes.jsonl
LogApprovalDecision ==
  \E issue_type \in {"replacement", "insertion", "deletion"}, approved \in BOOLEAN,
     raised \in LogOutcomes :
    Logged("log_approval_decision", "changes.jsonl",
           [decision_type |-> issue_type, approved |-> approved,
            date |-> Len(log_calls) + 1],
           IF "ensure_storage_dir" \in SimpleConfigMethods
           THEN raised ELSE "AttributeError")

\* MediaApprovalLog.log_approval
MediaLogApproval ==
  \E approved \in BOOLEAN, raised \in {"none", "OSError"} :
    Logged("log_approval", "media_approvals.jsonl",
           [decision_type |-> "media", approved |-> approved,
            date |-> Len(log_calls) + 1],
           raised)

NextLog ==
  \/ PromptAndLogDecision
  \/ LogApprovalDecision
  \/ MediaLogApproval

\* the logging functions called in any order on the logs of one run
InitLog == InitWith({<<>>})

SpecLog == InitLog /\ [][NextLog]_vars

\* ------------------------------------------- editai/cli.py: edit
\* all_editors of the edit command
AllEditors == {"ai", "vale", "custom_rules", "images", "links"}

\* the names the module binds: its imports and its definitions.  A name
\* the module does not bind raises NameError where it is evaluated
CliModuleNames ==
  {"concurrent", "os", "Path", "List", "typer", "logger", "SimpleConfig",
   "create_default_config", "find_config_file", "ValeEditor",
   "get_vale_config_path", "app", "config_app", "is_directory", "edit",
   "run_editors_sequential", "run_editors_parallel", "run_single_editor",
   "print_summary"}

\* the names the dictionary editor_mapping of run_single_editor evaluates
EditorMapping ==
  [vale |-> "ValeEditor", custom_rules |-> "RulesEditor",
   images |-> "ImageAdditionEditor", links |-> "InternalLinkEditor"]

\* run_single_editor, up to the choice of editor_class: the exception it
\* raises there, "none" when it goes on to run the editor
RunSingleEditor(editor_name) ==
  IF \E k \in DOMAIN EditorMapping : EditorMapping[k] \notin CliModuleNames
  THEN "NameError"
  ELSE IF editor_name \notin DOMAIN EditorMapping THEN "ValueError"
  ELSE "none"

\* the body of the loop of run_editors_sequential: the try statement
\* around run_single_editor puts the result or the error in results
RunEditorsSequentialStep ==
  /\ runner.mode = "sequential"
  /\ runner.pc = "loop"
  /\ runner.pos <= Len(runner.editors)
  /\ LET editor_name == runner.editors[runner.pos]
         raised == RunSingleEditor(editor_name)
     IN /\ raised # "none"
        /\ runner' = [runner EXCEPT
             !.started = Append(@, [editor |-> editor_name, raised |-> raised]),
             !.results = DictSet(@, editor_name, [error |-> raised]),
             !.pos = @ + 1]
  /\ UNCHANGED <<editorVarsButRunner, log, log_calls, pool, parser>>

\* return results
RunEditorsSequentialReturn ==
  /\ runner.mode = "sequential"
  /\ runner.pc = "loop"
  /\ runner.pos > Len(runner.editors)
  /\ runner' = [runner EXCEPT !.pc = "returned"]
  /\ UNCHANGED <<editorVarsButRunner, log, log_calls, pool, parser>>

\* run_editors_parallel: the with statement evaluates ThreadPoolExecutor
\* before anything is submitted, outside any try statement
RunEditorsParallel ==
  /\ runner.mode = "parallel"
  /\ runner.pc = "loop"
  /\ "ThreadPoolExecutor" \notin CliModuleNames
  /\ runner' = [runner EXCEPT !.pc = "raised", !.raised = "NameError"]
  /\ UNCHANGED <<editorVarsButRunner, log, log_calls, pool, parser>>

NextRun ==
  \/ RunEditorsSequentialStep
  \/ RunEditorsSequentialReturn
  \/ RunEditorsParallel

\* edit has chosen selected_editors and --parallel or --sequential
InitRun ==
  /\ InitEditor({<<>>})
  /\ config = [dry_run |-> FALSE, approval_mode |-> FALSE]
  /\ pc = "idle"
  /\ cli = NoCommand
  /\ driver = Direct
  /\ passes = 1
  /\ first_pass = [output |-> <<>>, issues |-> 0]
  /\ log = [f \in LogFiles |-> <<>>]
  /\ log_calls = <<>>
  /\ pool = NoPool
  /\ parser = NoParser
  /\ runner \in {[NoRun EXCEPT !.mode = m, !.editors = es, !.pc = "loop"] :
                   m \in {"sequential", "parallel"},
                   es \in BoundedSeq(AllEditors, MaxEditors)}

SpecRun == InitRun /\ [][NextRun]_vars

\* ------------------------------- passes at the same time on one file
\* the passes: threads of a pool, or processes
Workers == 1..MaxEditors

\* what marks the edit of a pass
Marker(k) == IF k = 1 THEN "e1" ELSE IF k = 2 THEN "e2" ELSE "e3"

\* the output of generate_v2 for a pass with one approved issue on the
\* first line: an insert issue puts the marked line before it, a replace
\* issue puts the marked line in its place
EditorOutput(k, issue_type, t) ==
  IF issue_type = "insertion"
  THEN Join(<<<<Marker(k)>>>> \o Split(t))
  ELSE Join(<<<<Marker(k)>>>> \o Tail(Split(t)))

\* f.write(content) on a file opened with "w": the content is written from
\* the start of the file, over what the file holds then
WriteFromStart(content, held) ==
  content \o SubSeq(held, Len(content) + 1, Len(held))

raceFrame ==
  <<text, config, issueVars, pc, err, original_text, passVars, fix_calls,
    filter_calls, cli, driver, passes, first_pass, log, log_calls, runner,
    parser>>

\* get_text(): the pass reads the file
GetText(k) ==
  /\ pool.workers[k].pc = "start"
  /\ pool' = [pool EXCEPT !.workers[k].pc = "read", !.workers[k].text = file,
                          !.workers[k].read = file]
  /\ UNCHANGED <<file, raceFrame>>

\* generate_v2() returns the content the pass will write
GenerateV2(k) ==
  /\ pool.workers[k].pc = "read"
  /\ \E issue_type \in {"insertion", "replacement"} :
       pool' = [pool EXCEPT
         !.workers[k].pc = "generated",
         !.workers[k].text = EditorOutput(k, issue_type, @)]
  /\ UNCHANGED <<file, raceFrame>>

\* with dry_run the content is not written back
SkipWrite(k) ==
  /\ pool.workers[k].pc = "generated"
  /\ pool.dry_run
  /\ pool' = [pool EXCEPT !.workers[k].pc = "returned"]
  /\ UNCHANGED <<file, raceFrame>>

\* open(path, "w") truncates the file
OpenForWriting(k) ==
  /\ pool.workers[k].pc = "generated"
  /\ ~pool.dry_run
  /\ file' = <<>>
  /\ pool' = [pool EXCEPT !.workers[k].pc = "opened"]
  /\ UNCHANGED raceFrame

\* f.write(content) and the end of the with statement
WriteAndClose(k) ==
  /\ pool.workers[k].pc = "opened"
  /\ file' = WriteFromStart(pool.workers[k].text, file)
  /\ pool' = [pool EXCEPT !.workers[k].pc = "returned",
                          !.writes = Append(@, k)]
  /\ UNCHANGED raceFrame

NextRace ==
  \E k \in Workers :
    \/ GetText(k)
    \/ GenerateV2(k)
    \/ SkipWrite(k)
    \/ OpenForWriting(k)
    \/ WriteAndClose(k)

\* the passes have been started on the file, none has read it yet
InitRace ==
  /\ InitEditor(Texts(TextChars))
  /\ config = [dry_run |-> FALSE, approval_mode |-> FALSE]
  /\ pc = "idle"
  /\ cli = NoCommand
  /\ driver = Direct
  /\ passes = 1
  /\ first_pass = [output |-> <<>>, issues |-> 0]
  /\ log = [f \in LogFiles |-> <<>>]
  /\ log_calls = <<>>
  /\ runner = NoRun
  /\ parser = NoParser
  /\ pool \in {[NoPool EXCEPT !.dry_run = d,
                               !.workers = [k \in Workers |->
                                              [pc |-> "start", text |-> <<>>,
                                               read |-> <<>>]]] :
                 d \in BOOLEAN}

SpecRace == InitRace /\ [][NextRace]_vars

\* ------------------------------------------- MDXParser, line by line
\* the lines of the documents given to the parser: empty, an open tag, an
\* indented open tag of the other name, the close tags, a self-closing
\* component, a component closed on its line, a close tag that does not
\* start its line, and an expression in braces
ScanLineKinds ==
  {<<>>, <<"<A">>, <<SP, "<B">>, <<"</A>">>, <<SP, "</B>">>, <<"<A", "/>">>,
   <<"<A", "a", "</A>">>, <<"a", "</A>">>, <<"{", "a", "}">>}

ScanContents == {Join(ls) : ls \in BoundedSeq(ScanLineKinds, MaxScanLines)}

scanFrame ==
  <<editorVarsButRunner, log, log_calls, runner, pool>>

\* model_post_init: self.lines = self.content.splitlines(), then
\* _identify_protected_regions() sets its locals
ModelPostInit ==
  /\ parser.pc = "new"
  /\ parser' = [parser EXCEPT !.pc = "scanning",
                              !.lines = SplitLines(parser.content),
                              !.line_idx = 1, !.st = ScanInit]
  /\ UNCHANGED scanFrame

\* one iteration of the loop of _identify_protected_regions
ScanStep ==
  /\ parser.pc = "scanning"
  /\ parser.line_idx <= Len(parser.lines)
  /\ LET st == ScanLine(parser.st, parser.line_idx,
                        parser.lines[parser.line_idx])
     IN parser' = [parser EXCEPT !.st = st, !.after = Append(@, st),
                                 !.line_idx = @ + 1]
  /\ UNCHANGED scanFrame

\* the loop is over
ScanEnd ==
  /\ parser.pc = "scanning"
  /\ parser.line_idx > Len(parser.lines)
  /\ parser' = [parser EXCEPT !.pc = "done"]
  /\ UNCHANGED scanFrame

NextScan ==
  \/ ModelPostInit
  \/ ScanStep
  \/ ScanEnd

\* MDXParser(content=...) is being constructed
InitScan ==
  /\ InitEditor({<<>>})
  /\ config = [dry_run |-> FALSE, approval_mode |-> FALSE]
  /\ pc = "idle"
  /\ cli = NoCommand
  /\ driver = Direct
  /\ passes = 1
  /\ first_pass = [output |-> <<>>, issues |-> 0]
  /\ log = [f \in LogFiles |-> <<>>]
  /\ log_calls = <<>>
  /\ runner = NoRun
  /\ pool = NoPool
  /\ parser \in {[NoParser EXCEPT !.pc = "new", !.content = c] :
                   c \in ScanContents}

SpecScan == InitScan /\ [][NextScan]_vars

\* lines of documents with statements and expressions: an import, an
\* indented export, an opening brace, a closing brace, an expression closed
\* on its line, an open tag, a close tag, a line of text and an empty line
MdxLineKinds ==
  {<<"import x">>, <<SP, "export x">>, <<"{">>, <<"}">>, <<"{", "a", "}">>,
   <<"<A">>, <<"</A>">>, <<"a">>, <<>>}

MdxContents == {Join(ls) : ls \in BoundedSeq(MdxLineKinds, MaxScanLines)}

InitScanMdx ==
  /\ InitEditor({<<>>})
  /\ config = [dry_run |-> FALSE, approval_mode |-> FALSE]
  /\ pc = "idle"
  /\ cli = NoCommand
  /\ driver = Direct
  /\ passes = 1
  /\ first_pass = [output |-> <<>>, issues |-> 0]
  /\ log = [f \in LogFiles |-> <<>>]
  /\ log_calls = <<>>
  /\ runner = NoRun
  /\ pool = NoPool
  /\ parser \in {[NoParser EXCEPT !.pc = "new", !.content = c] :
                   c \in MdxContents}

SpecScanMdx == InitScanMdx /\ [][NextScan]_vars

TypeOK ==
  /\ pc \in {"cli", "idle", "collect", "fix", "emit", "done", "raised", "returned"}
  /\ err \in {"none", "KeyError", "AttributeError", "Exception"}

\* ------------------------------------------------------------ properties
\* generate_v2 has returned
Done == pc = "done"

\* the lines of the text the pass started from, as the lookup numbers them
OrigLines == Split(original_text)

NumOrigLines == Len(OrigLines)

\* the protected intervals of the text the pass started from
ProtectedRegions == IdentifyProtectedRegions(original_text)

\* the contents the output holds for document line L, in output order
LineOut(L) ==
  LET es == SelectSeq(final_lines, LAMBDA e : e.src = "line" /\ e.n = L)
  IN [i \in DOMAIN es |-> es[i].content]

\* the calls of _approval_filter for one kind of issue that approved
ApprovedCalls(issue_type) ==
  {i \in DOMAIN filter_calls :
     filter_calls[i].issue_type = issue_type /\ filter_calls[i].approved}

\* C1: an issue that targets a protected line is rejected by the approval
\* check, and the operator is not asked, under every policy.
C1_ProtectedLineRejected ==
  \A i \in DOMAIN filter_calls :
    IsProtectedLine(ProtectedRegions, filter_calls[i].line)
      => ~filter_calls[i].approved /\ ~filter_calls[i].prompted

\* C2: after a pass every line inside a protected interval is in the output
\* with its original content.
C2_ProtectedLinesKept ==
  Done =>
    \A L \in 1..NumOrigLines :
      IsProtectedLine(ProtectedRegions, L) => LineOut(L) = <<OrigLines[L]>>

\* --- replace issues
\* the call of fix() made for line L
FixCallFor(L) == fix_calls[CHOOSE i \in DOMAIN fix_calls : fix_calls[i].line = L]

ReplacedLines == {replacements[i].line : i \in DOMAIN replacements}

\* the lines that an approved delete issue targets
DeletedLines == {filter_calls[i].line : i \in ApprovedCalls("deletion")}

\* the lines that any registered issue targets
TargetedLines ==
  ReplacedLines \cup {deletions[i].line : i \in DOMAIN deletions}
                \cup {insertions[i].line : i \in DOMAIN insertions}

AllReplacementsApproved ==
  \A i \in DOMAIN filter_calls :
    filter_calls[i].issue_type = "replacement" => filter_calls[i].approved

NoTwoReplacementsOnOneLine ==
  \A i, j \in DOMAIN replacements :
    i # j => replacements[i].line # replacements[j].line

UntargetedLinesKept ==
  \A L \in (1..NumOrigLines) \ TargetedLines : LineOut(L) = <<OrigLines[L]>>

\* C3 as stated: with every replace issue approved and no two on one line,
\* each targeted line holds the resolved text and each untargeted line its
\* original content.
C3_ReplacedLinesHoldFix ==
  (Done /\ AllReplacementsApproved /\ NoTwoReplacementsOnOneLine) =>
    /\ \A L \in ReplacedLines : LineOut(L) = <<FixCallFor(L).result>>
    /\ UntargetedLinesKept

\* C3 amended: the same, for the targeted lines that no approved delete
\* issue targets and whose resolved text is not the delete marker.
C3_ReplacedLinesHoldFixUnlessDeleted ==
  (Done /\ AllReplacementsApproved /\ NoTwoReplacementsOnOneLine) =>
    /\ \A L \in ReplacedLines :
         (L \notin DeletedLines /\ FixCallFor(L).result # DELETE_LINE_MESSAGE)
           => LineOut(L) = <<FixCallFor(L).result>>
    /\ UntargetedLinesKept

C3_Witness ==
  /\ Done /\ NoTwoReplacementsOnOneLine
  /\ \E L \in ReplacedLines :
       /\ L \notin DeletedLines
       /\ FixCallFor(L).result \notin {DELETE_LINE_MESSAGE, OrigLines[L]}
       /\ LineOut(L) = <<FixCallFor(L).result>>
  /\ \E L \in (1..NumOrigLines) \ TargetedLines : LineOut(L) = <<OrigLines[L]>>

\* --- delete issues
\* C4 as stated: without insertions, k approved delete issues leave
\* N - k lines, duplicates counted one by one.
C4_LineCountMinusDeletions ==
  (Done /\ insertions = <<>>) =>
    Len(final_lines) = NumOrigLines - Cardinality(ApprovedCalls("deletion"))

\* C4 amended: without insertions and without a replacement that resolved
\* to the delete marker, the output has N - d lines, d the number of
\* distinct lines of the document that an approved delete issue targets.
C4_LineCountMinusDeletedLines ==
  (Done /\ insertions = <<>>
        /\ \A i \in DOMAIN fix_calls : fix_calls[i].result # DELETE_LINE_MESSAGE) =>
    Len(final_lines) =
      NumOrigLines - Cardinality(DeletedLines \cap (1..NumOrigLines))

C4_Witness ==
  /\ Done /\ insertions = <<>> /\ replacements = <<>>
  /\ Len(deletions) = 2
  /\ deletions[1].line = deletions[2].line
  /\ deletions[1].line \in 1..NumOrigLines
  /\ Cardinality(ApprovedCalls("deletion")) = 2
  /\ NumOrigLines = 2
  /\ Len(final_lines) = 1

\* --- insert issues
InsertionTarget(e) == insertions[e.n].line

\* C5: an approved insertion whose target line L is a line of the document
\* is in the output directly before the content from line L, with nothing
\* but other insertions for L in between.
C5_InsertionBeforeItsLine ==
  Done =>
    \A i \in DOMAIN final_lines :
      (final_lines[i].src = "insertion"
         /\ InsertionTarget(final_lines[i]) \in 1..NumOrigLines) =>
        \E j \in (i + 1)..Len(final_lines) :
          /\ final_lines[j].src = "line"
          /\ final_lines[j].n = InsertionTarget(final_lines[i])
          /\ \A k \in (i + 1)..(j - 1) :
               /\ final_lines[k].src = "insertion"
               /\ InsertionTarget(final_lines[k]) = InsertionTarget(final_lines[i])

\* C6: insertions are in the output by ascending target line, those with one
\* target line in the order registered, and those whose target line is past
\* the document come after every line of the document.
C6_InsertionsInStableOrder ==
  Done =>
    /\ \A i, j \in DOMAIN final_lines :
         (i < j /\ final_lines[i].src = "insertion" /\ final_lines[j].src = "insertion") =>
           \/ InsertionTarget(final_lines[i]) < InsertionTarget(final_lines[j])
           \/ /\ InsertionTarget(final_lines[i]) = InsertionTarget(final_lines[j])
              /\ final_lines[i].n < final_lines[j].n
    /\ \A i, j \in DOMAIN final_lines :
         (final_lines[i].src = "insertion"
            /\ InsertionTarget(final_lines[i]) > NumOrigLines
            /\ final_lines[j].src = "line") => j < i

C6_Witness ==
  /\ Done
  /\ Len(insertions) = 2
  /\ insertions[1].line = insertions[2].line
  /\ insertions[1].line > NumOrigLines
  /\ insertions[1].insert_content # insertions[2].insert_content
  /\ Len(final_lines) = NumOrigLines + 2
  /\ final_lines[NumOrigLines + 1].n = 1
  /\ final_lines[NumOrigLines + 2].n = 2

\* --- no issues
\* C7: a pass with no issue registered returns the text it was given.
C7_NoIssuesSameText == (Done /\ NumIssues = 0) => text = original_text

C7_Witness ==
  /\ Done /\ NumIssues = 0
  /\ original_text # <<>>
  /\ original_text[Len(original_text)] = NL
  /\ text = original_text

\* --- the delete marker
SomeDeletionApproved == ApprovedCalls("deletion") # {}

\* C8 as stated: after a pass with approved delete issues no line of the
\* output text equals the delete marker.
C8_NoMarkerInOutput ==
  (Done /\ SomeDeletionApproved) => DELETE_LINE_MESSAGE \notin Range(Split(text))

\* C8 amended: after a pass with approved delete issues the pass emits the
\* delete marker for no line it deleted or changed; an output entry equal
\* to the marker is the content of an approved insertion or a line of the
\* document that already held it and was left alone.
C8_NoMarkerFromChangedLine ==
  (Done /\ SomeDeletionApproved) =>
    \A i \in DOMAIN final_lines :
      final_lines[i].content = DELETE_LINE_MESSAGE =>
        \/ final_lines[i].src = "insertion"
        \/ /\ final_lines[i].n \notin DOMAIN changes
           /\ OrigLines[final_lines[i].n] = DELETE_LINE_MESSAGE

C8_Witness ==
  /\ Done
  /\ \E L \in DeletedLines \cap (1..NumOrigLines) : LineOut(L) = <<>>
  /\ final_lines # <<>>
  /\ DELETE_LINE_MESSAGE \notin Range(Split(text))

\* --- grouping of replace issues
\* the positions in self.replacements of the issues for line L
IssuesOn(L) == {i \in DOMAIN replacements : replacements[i].line = L}

ReplaceLoopOver ==
  pc \in {"emit", "done"} \/ (pc = "fix" /\ compressed_pos > Len(compressed_issues))

FailedCalls == {i \in DOMAIN fix_calls : fix_calls[i].failed}

\* a failed call gives back existing_content, and the failure does not end
\* the pass: a pass that ends has gone through every issue
FailureContained ==
  /\ \A i \in FailedCalls : fix_calls[i].result = fix_calls[i].existing_content
  /\ err # "Exception"
  /\ Done =>
       /\ Len(fix_calls) = Len(compressed_issues)
       /\ Cardinality({i \in DOMAIN filter_calls :
                         filter_calls[i].issue_type = "deletion"}) = Len(deletions)
       /\ Cardinality({i \in DOMAIN filter_calls :
                         filter_calls[i].issue_type = "insertion"}) = Len(insertions)

AllIssueLines ==
  {replacements[i].line : i \in DOMAIN replacements}
    \cup {insertions[i].line : i \in DOMAIN insertions}
    \cup {deletions[i].line : i \in DOMAIN deletions}

\* C11: an issue whose line is not a line of the document is ignored: the
\* pass does not fail on it, and a pass all of whose issues are of that
\* kind returns the text it was given, as the pass without them does.
C11_OutOfRangeIgnored ==
  /\ err # "KeyError"
  /\ (Done /\ AllIssueLines \cap (1..NumOrigLines) = {}) => text = original_text

\* --- the drivers of a pass
\* dry_run() has been entered
InDryRun == driver.entry = "dry_run" /\ pc \notin {"cli", "idle"}

NoIssuePrompt == \A i \in DOMAIN filter_calls : ~filter_calls[i].prompted

C13_NoApprovalRunsUnprompted ==
  (cli.command # "none" /\ ~cli.require_approval) =>
    /\ NoIssuePrompt
    /\ driver.update_prompts = 0
    /\ (pc = "returned" /\ driver.entry = "update_file") => file = text

\* --- a second pass on one editor
\* C14: a second call of generate_v2 starts from the output of the first,
\* and applies none of the issues the first call consumed: when nothing
\* new was collected for it, it returns the first call's output.
C14_SecondPassFresh ==
  passes = 2 =>
    /\ pc # "collect" => original_text = first_pass.output
    /\ (Done /\ NumIssues = first_pass.issues) => text = first_pass.output

\* --- the decision logs
\* the entries the successful calls wrote to file f, in the order of the calls
WrittenTo(f) ==
  LET ok == SelectSeq(log_calls, LAMBDA c : c.file = f /\ c.raised = "none")
  IN [i \in DOMAIN ok |-> ok[i].record]

\* C15: every log file holds exactly the records of the decisions logged to
\* it, one per decision, in the order they were logged: a record, once
\* written, keeps its place and content, and a new one goes to the end.
C15_LogOnlyGrows == \A f \in LogFiles : log[f] = WrittenTo(f)

C15_Witness ==
  /\ Len(log_calls) = 3
  /\ \E f \in LogFiles :
       /\ Len(log[f]) = 2
       /\ log[f][1].approved # log[f][2].approved
       /\ \E i \in DOMAIN log_calls : log_calls[i].file = f /\ log_calls[i].raised # "none"

\* --- failure of the logging step
\* C16: when the logging of an approved change fails, the change is still
\* applied: the failure does not end the pass.
C16_LogFailureKeepsChange ==
  \A i \in DOMAIN filter_calls :
    (filter_calls[i].prompted /\ filter_calls[i].approved
       /\ filter_calls[i].raised # "none") => pc # "raised"

\* --- several editors on one path
RunEnded == runner.pc \in {"returned", "raised"}

\* C17: when several editors have been run on one path and one of them
\* raised, the run returned a summary, every selected editor was run, the
\* summary has exactly one entry per selected editor, and the entry of an
\* editor that raised holds its error.
C17_OneEntryPerEditor ==
  (RunEnded /\ Len(runner.editors) >= 2) =>
    /\ runner.pc = "returned"
    /\ {runner.started[i].editor : i \in DOMAIN runner.started}
         = Range(runner.editors)
    /\ DOMAIN runner.results = Range(runner.editors)
    /\ \A i \in DOMAIN runner.started :
         runner.started[i].raised # "none" =>
           runner.results[runner.started[i].editor]
             = [error |-> runner.started[i].raised]

\* --- the checks before a pass
\* generate_v2 has been called: an issue was collected or a later step taken
PassStarted == NumIssues > 0 \/ pc \in {"fix", "emit", "done", "raised"}

\* C18: on every driver path a pass collects and reconciles issues only
\* after prerun_checks has returned true on the editor, and when
\* prerun_checks has returned false no pass is made and the file keeps its
\* content.
C18_PrerunChecksFirst ==
  /\ PassStarted => driver.prerun = "true"
  /\ driver.prerun = "false" => (~PassStarted /\ file = original_text)

\* --- passes at the same time on one file
AllReturned == \A k \in Workers : pool.workers[k].pc = "returned"

LastWriter == pool.writes[Len(pool.writes)]

\* every pass read the file as it was before any pass opened it for writing
AllReadOriginal == \A k \in Workers : pool.workers[k].read = original_text

\* C19: when two passes have run at the same time on one file, each from
\* the content the file had before either wrote, and both have written it
\* back, the file holds exactly the complete text of the pass that wrote
\* last, and the edit of a pass that wrote before it is not in the file.
C19_LastWriterWins ==
  (AllReturned /\ Len(pool.writes) >= 2 /\ AllReadOriginal
     /\ original_text # <<>>) =>
    /\ file = pool.workers[LastWriter].text
    /\ \A k \in Workers \ {LastWriter} : Marker(k) \notin Range(file)

\* --- the region of a component
\* the state the scanner is in when it comes to line l
ScanStateBefore(l) == IF l = 1 THEN ScanInit ELSE parser.after[l - 1]

\* line l starts with the open tag of component n while no component is
\* open, and neither ends in "/>" nor holds the close tag of n
OpensAt(l, n) ==
  /\ ~ScanStateBefore(l).in_jsx_block
  /\ JsxStartMatch(parser.lines[l]) = n
  /\ Strip(parser.lines[l])[Len(Strip(parser.lines[l]))] # "/>"
  /\ CloseTag(n) \notin Range(parser.lines[l])

\* line l matches the close tag of component n
ClosesAt(l, n) ==
  LStrip(parser.lines[l]) # <<>> /\ LStrip(parser.lines[l])[1] = CloseTag(n)

\* e is the first line after s that matches the close tag of n
FirstCloseAfter(s, e, n) ==
  /\ e > s
  /\ ClosesAt(e, n)
  /\ \A l \in (s + 1)..(e - 1) : ~ClosesAt(l, n)

\* C20: when line s opens a component that is not closed on line s and e
\* is the first later line that matches the close tag of that name, then
\* once line e is scanned (s, e) is a protected region, every line from s
\* to e is protected whatever tags of other names the lines between hold,
\* and the scanner leaves line e with no component open.
C20_RegionUpToCloseTag ==
  \A s \in 1..Len(parser.after), e \in 1..Len(parser.after),
     n \in ComponentNames :
    (OpensAt(s, n) /\ FirstCloseAfter(s, e, n)) =>
      /\ <<s, e>> \in Range(parser.st.protected_regions)
      /\ \A l \in s..e : IsProtectedLine(parser.st.protected_regions, l)
      /\ ~parser.after[e].in_jsx_block
      /\ parser.after[e].component_name = "None"

\* a component A that holds an indented component B and is closed on the
\* fourth line: one region, and no component open at the end
C20_Witness ==
  /\ parser.pc = "done"
  /\ parser.lines = <<<<"<A">>, <<SP, "<B">>, <<SP, "</B>">>, <<"</A>">>>>
  /\ OpensAt(1, "A") /\ FirstCloseAfter(1, 4, "A")
  /\ parser.st.protected_regions = <<<<1, 4>>>>
  /\ ~parser.st.in_jsx_block

\* --- statements and expressions outside a component
ScannedLines == 1..Len(parser.after)

\* the line starts, after its indentation, with "import " or "export "
IsStatement(l) ==
  /\ Strip(parser.lines[l]) # <<>>
  /\ Strip(parser.lines[l])[1] \in {"import x", "export x"}

\* what the scanner holds about the open component
OpenComponent(st) == <<st.in_jsx_block, st.jsx_start_line, st.component_name>>

UnmatchedBrace(l) == Count(parser.lines[l], "{") # Count(parser.lines[l], "}")

\* C22: a line scanned while no component is open that holds an unmatched
\* brace, opening or closing, is the protected region (n, n).
C22_UnmatchedBraceIsSingleton ==
  \A n \in ScannedLines :
    (UnmatchedBrace(n) /\ ~ScanStateBefore(n).in_jsx_block
       /\ JsxStartMatch(parser.lines[n]) = "None" /\ ~IsStatement(n)) =>
      <<n, n>> \in Range(parser.st.protected_regions)

\* --- lines of an open component
\* line l was scanned with a component open, or opened one
InOpenComponent(l) ==
  ScanStateBefore(l).in_jsx_block \/ parser.after[l].in_jsx_block

\* C26: once the scan is over, every line that was scanned while a
\* component was open, from the line of its open tag on, is protected, also
\* when the document ended before the close tag.
C26_OpenComponentProtected ==
  parser.pc = "done" =>
    \A n \in ScannedLines :
      InOpenComponent(n) => IsProtectedLine(parser.st.protected_regions, n)

\* --- the order of the replace issues
\* C23: the replace issues of a pass on lines of the document are
\* resolved and gated in ascending order of their lines, whatever order
\* they were registered in.
C23_ResolvedInLineOrder ==
  /\ \A i, j \in DOMAIN fix_calls :
       (i < j /\ {fix_calls[i].line, fix_calls[j].line} \subseteq 1..NumOrigLines)
         => fix_calls[i].line < fix_calls[j].line
  /\ \A i, j \in DOMAIN filter_calls :
       (i < j /\ filter_calls[i].issue_type = "replacement"
              /\ filter_calls[j].issue_type = "replacement"
              /\ {filter_calls[i].line, filter_calls[j].line}
                   \subseteq 1..NumOrigLines) =>
         filter_calls[i].line < filter_calls[j].line

\* --- what the resolver is shown and what it answers
\* the approval check the i-th call of fix() was followed by
FilterCallOf(i) == filter_calls[i]

\* the content line n has when fix() is called for the i-th time: the fix
\* approved for it earlier in the pass, the original content otherwise
CurrentContent(i, n) ==
  IF \E j \in 1..(i - 1) : fix_calls[j].line = n /\ FilterCallOf(j).approved
  THEN fix_calls[CHOOSE j \in 1..(i - 1) :
                   fix_calls[j].line = n /\ FilterCallOf(j).approved].result
  ELSE OrigLines[n]

\* the i-th call of fix() answered the content the line has
NoOpFix(i) ==
  /\ fix_calls[i].line \in 1..NumOrigLines
  /\ fix_calls[i].result = CurrentContent(i, fix_calls[i].line)

\* the numbers of the existing lines from max(1, L - 5) to L + 5
WindowOf(L) == SortedKeys({n \in Max(1, L - 5)..(L + 5) : n \in 1..NumOrigLines})

\* C24: the context fix() is given for line L is the existing lines from
\* max(1, L - 5) to L + 5, numbered, each with the content it has at that
\* moment: the fix approved for it earlier in the pass, else the original.
C24_ContextIsCurrentWindow ==
  \A i \in DOMAIN fix_calls :
    LET nos == WindowOf(fix_calls[i].line)
    IN fix_calls[i].context =
         Join([k \in DOMAIN nos |->
                 <<ToString(nos[k]), ": ">> \o CurrentContent(i, nos[k])])

\* line 2 of a seven-line document was changed by an approved fix, and
\* fix() is then called for line 7: the window starts at line 2, which it
\* shows with the fix
C24_Witness ==
  /\ NumOrigLines = 7
  /\ Len(fix_calls) = 2
  /\ fix_calls[1].line = 2
  /\ FilterCallOf(1).approved
  /\ fix_calls[1].result # OrigLines[2]
  /\ fix_calls[2].line = 7
  /\ fix_calls[2].context[1] = "2"
  /\ SubSeq(fix_calls[2].context, 3, 2 + Len(fix_calls[1].result))
       = fix_calls[1].result

\* C25: when fix() answers the content the line already has, the operator
\* is not asked to approve the issue (and so no decision is recorded).
C25_NoOpFixNotGated ==
  \A i \in DOMAIN fix_calls :
    NoOpFix(i) =>
      ~\E k \in DOMAIN filter_calls :
         /\ filter_calls[k].issue_type = "replacement"
         /\ filter_calls[k].line = fix_calls[i].line
         /\ filter_calls[k].prompted

\* --- how often the approval check is consulted
\* the calls of _approval_filter for one kind of issue
CallsFor(issue_type) ==
  {i \in DOMAIN filter_calls : filter_calls[i].issue_type = issue_type}

\* the distinct lines that replace issues target
ReplaceLines == {replacements[i].line : i \in DOMAIN replacements}

\* generate_v2 has been left, by return or by an exception
PassEnded == pc \in {"done", "raised"}

\* every issue was put to the approval check once
ConsultedOnceEach ==
  /\ Cardinality(CallsFor("replacement")) = Cardinality(ReplaceLines)
  /\ \A L \in ReplaceLines :
       Cardinality({i \in CallsFor("replacement") : filter_calls[i].line = L}) = 1
  /\ Cardinality(CallsFor("deletion")) = Len(deletions)
  /\ Cardinality(CallsFor("insertion")) = Len(insertions)

\* C27: when generate_v2 has ended, the approval check was consulted
\* exactly once for each line with replace issues, once for each delete
\* issue and once for each insert issue.
C27_EachIssueConsultedOnce == PassEnded => ConsultedOnceEach

\* --- rejected issues
\* the calls of _approval_filter that answered False
RejectedCalls == {i \in DOMAIN filter_calls : ~filter_calls[i].approved}

\* C28: a pass in which issues were rejected returns the output of the
\* pass with the approved issues only; in particular it returns, and when
\* every issue was rejected it returns the text it was given.
C28_RejectedIssuesNoEffect ==
  (PassEnded /\ RejectedCalls # {}) =>
    /\ Done
    /\ RejectedCalls = DOMAIN filter_calls => text = original_text

\* --- a line both replaced and deleted
\* line L has an approved replace issue and an approved delete issue
ReplacedAndDeleted(L) ==
  /\ \E i \in ApprovedCalls("replacement") : filter_calls[i].line = L
  /\ \E i \in ApprovedCalls("deletion") : filter_calls[i].line = L

\* C29: when a pass approved both a replace issue and a delete issue for
\* one line of the document, the output holds nothing for that line,
\* neither its content nor the replacement.
C29_DeleteWinsOverReplace ==
  Done =>
    \A L \in 1..NumOrigLines : ReplacedAndDeleted(L) => LineOut(L) = <<>>

\* line 1 of a two-line document got a fix that changes it and was then
\* deleted; the output is line 2 alone
C29_Witness ==
  /\ Done
  /\ NumOrigLines = 2
  /\ ReplacedAndDeleted(1)
  /\ Len(fix_calls) = 1
  /\ fix_calls[1].result \notin {OrigLines[1], DELETE_LINE_MESSAGE}
  /\ LineOut(1) = <<>>
  /\ LineOut(2) = <<OrigLines[2]>>
  /\ text = OrigLines[2]

\* --- the order of the approval decisions
\* the phase of generate_v2 that asks for the decisions on a kind of issue
PhaseOf(issue_type) ==
  CASE issue_type = "replacement" -> 1
    [] issue_type = "deletion" -> 2
    [] issue_type = "insertion" -> 3

\* the calls of _approval_filter for one kind of issue, in call order
CallSeq(issue_type) ==
  SelectSeq(filter_calls, LAMBDA c : c.issue_type = issue_type)

\* C30: the approval decisions of a pass are asked for in three phases
\* that do not interleave: those on replace issues, then those on delete
\* issues in the order the issues were registered, then those on insert
\* issues by ascending target line.
C30_ThreePhases ==
  /\ \A i, j \in DOMAIN filter_calls :
       i < j => PhaseOf(filter_calls[i].issue_type)
                  <= PhaseOf(filter_calls[j].issue_type)
  /\ \A k \in DOMAIN CallSeq("deletion") :
       /\ k <= Len(deletions)
       /\ CallSeq("deletion")[k].line = deletions[k].line
  /\ \A i, j \in DOMAIN CallSeq("insertion") :
       i < j => CallSeq("insertion")[i].line <= CallSeq("insertion")[j].line

\* insert issues registered for line 2 and then for line 1 of a two-line
\* document were decided on in the order line 1, line 2
C30_Witness ==
  /\ Done
  /\ NumOrigLines = 2
  /\ Len(insertions) = 2
  /\ insertions[1].line = 2
  /\ insertions[2].line = 1
  /\ Len(filter_calls) = 2
  /\ filter_calls[1].line = 1
  /\ filter_calls[2].line = 2

====
